---- MODULE Spec2Model ----
(***************************************************************************)
(* Entity Metadata / Entity Overrides: export and import of entity         *)
(* registry overrides to YAML files, with timestamped backups.             *)
(*                                                                         *)
(* Strings on which the code does character work (entity ids, domain       *)
(* filters, top-level YAML keys) are sequences of one-character strings.   *)
(* Python's None is the value None; a YAML mapping is Dict(keys, val): its *)
(* keys in insertion order and the function from key to value.             *)
(***************************************************************************)
EXTENDS Integers, Sequences, FiniteSets, TLC

VARIABLES
    registry,   \* HA entity registry: entity_id -> registry entry
    files,      \* entity_metadata override files: path -> parsed YAML document
    backups,    \* etc/entity_metadata/backups: stamp of overrides-<stamp>.yaml -> document
    ofile,      \* entity_overrides/overrides.yaml: <<>> when absent, else <<document>>
    obackups,   \* entity_overrides/backups: stamp of overrides.<stamp>.yaml -> document
    options,    \* options of the config entries (a key is absent until set)
    now,        \* the wall clock, in seconds
    inflight,   \* service calls suspended at an await: call id -> position and locals
    started,    \* EVENT_HOMEASSISTANT_STARTED has fired
    listeners,  \* the listen_once callbacks registered for the started event
    loaded,     \* the integrations whose async_setup_entry has run
    last        \* the last service call: its parameters, its locals and its outcome,
                \* as its log lines and exception show it

vars == <<registry, files, backups, ofile, obackups, options, now, inflight, started, listeners, loaded, last>>

----------------------------------------------------------------------------
(* Values *)

None == "None"
USER == "user"
INTEGRATION == "integration"

E_LIGHT == <<"l", ".", "a">>
E_SWITCH == <<"s", ".", "a">>
E_UNKNOWN == <<"l", ".", "z">>

\* ent_reg.entities iterates in registration order
RegOrder == <<E_LIGHT, E_SWITCH>>

K_VERSION == <<"v", "e", "r", "s", "i", "o", "n">>
K_GENERATED_AT == <<"g", "e", "n", "e", "r", "a", "t", "e", "d", "_", "a", "t">>
K_ENTITIES == <<"e", "n", "t", "i", "t", "i", "e", "s">>

\* the service's "path" parameter: NO_PATH when the call gives none
NO_PATH == ""
CUSTOM_PATH == "custom.yaml"
overrides_path == "etc/entity_metadata/overrides.yaml"

Areas == { [id |-> "a1", name |-> "Kitchen"] }

Dict(keys, val) == [t |-> "dict", keys |-> keys, val |-> val]
EmptyDict == Dict(<<>>, <<>>)
YInt(n) == [t |-> "int", int |-> n]
YStr(s) == [t |-> "str", str |-> s]
YNull == [t |-> "null"]
YList(n) == [t |-> "list", len |-> n]

Has(d, k) == \E i \in 1..Len(d.keys) : d.keys[i] = k
Get(d, k) == d.val[k]

Range(s) == { s[i] : i \in 1..Len(s) }

----------------------------------------------------------------------------
(* str.lower() and str.partition(".")[0] over the alphabet of the model *)

LowerChar(c) ==
    CASE c = "L" -> "l"
      [] c = "S" -> "s"
      [] c = "A" -> "a"
      [] c = "Z" -> "z"
      [] OTHER -> c

Lower(s) == [i \in 1..Len(s) |-> LowerChar(s[i])]

PartitionHead(s) ==
    IF \E i \in 1..Len(s) : s[i] = "."
    THEN LET first == CHOOSE i \in 1..Len(s) :
                        s[i] = "." /\ \A j \in 1..(i - 1) : s[j] # "."
         IN SubSeq(s, 1, first - 1)
    ELSE s

entry_domain(entity_id) == Lower(PartitionHead(entity_id))

----------------------------------------------------------------------------
(* _serialize_registry *)

EntryKeys(entry) ==
    (IF entry.name # None /\ entry.name # "" THEN <<"name">> ELSE <<>>)
    \o (IF entry.icon # None /\ entry.icon # "" THEN <<"icon">> ELSE <<>>)
    \o (IF entry.hidden_by # None THEN <<"hidden">> ELSE <<>>)
    \o (IF entry.disabled_by # None THEN <<"disabled">> ELSE <<>>)

EntryData(entry) ==
    LET keys == EntryKeys(entry)
    IN Dict(keys, [k \in Range(keys) |->
                     CASE k = "name" -> entry.name
                       [] k = "icon" -> entry.icon
                       [] OTHER -> TRUE])

DomainSet(include_domains) == { Lower(d) : d \in include_domains }

\* the filter compared as given, without lower-casing it
InPayload_FilterNotLowered(reg, entity_id, include_domains, include_all) ==
    /\ entity_id \in DOMAIN reg
    /\ ~(include_domains # {} /\ entry_domain(entity_id) \notin include_domains)
    /\ (include_all \/ Len(EntryKeys(reg[entity_id])) > 0)

InPayload(reg, entity_id, include_domains, include_all) ==
    LET domains == DomainSet(include_domains)
    IN /\ entity_id \in DOMAIN reg
       /\ ~(domains # {} /\ entry_domain(entity_id) \notin domains)
       /\ (include_all \/ Len(EntryKeys(reg[entity_id])) > 0)

PayloadKeys(reg, include_domains, include_all) ==
    SelectSeq(RegOrder, LAMBDA e : InPayload(reg, e, include_domains, include_all))

Payload(reg, include_domains, include_all) ==
    LET keys == PayloadKeys(reg, include_domains, include_all)
    IN Dict(keys, [e \in Range(keys) |-> EntryData(reg[e])])

_serialize_registry(reg, include_domains, include_all, ts) ==
    Dict(<<K_VERSION, K_GENERATED_AT, K_ENTITIES>>,
         [k \in {K_VERSION, K_GENERATED_AT, K_ENTITIES} |->
            CASE k = K_VERSION -> YInt(1)
              [] k = K_GENERATED_AT -> YStr(ts)
              [] OTHER -> Payload(reg, include_domains, include_all)])

----------------------------------------------------------------------------
(* Time stamps: strftime("%Y%m%d-%H%M%S") is fixed width; the model keeps   *)
(* the two digits of the window of seconds that it covers.                 *)

Stamp(t) == <<t \div 10, t % 10>>

RECURSIVE LexLess(_, _)
LexLess(a, b) ==
    IF Len(a) = 0 THEN Len(b) > 0
    ELSE IF Len(b) = 0 THEN FALSE
    ELSE IF a[1] # b[1] THEN a[1] < b[1]
    ELSE LexLess(Tail(a), Tail(b))

MaxName(S) == CHOOSE m \in S : \A x \in S : x = m \/ LexLess(x, m)
MinName(S) == CHOOSE m \in S : \A x \in S : x = m \/ LexLess(m, x)

\* sorted(names, reverse=True)
RECURSIVE SortedDesc(_)
SortedDesc(S) ==
    IF S = {} THEN <<>> ELSE <<MaxName(S)>> \o SortedDesc(S \ {MaxName(S)})

\* sorted(names)
RECURSIVE SortedAsc(_)
SortedAsc(S) ==
    IF S = {} THEN <<>> ELSE <<MinName(S)>> \o SortedAsc(S \ {MinName(S)})

Without(f, names) == [n \in (DOMAIN f) \ names |-> f[n]]

----------------------------------------------------------------------------
(* hass.data & FS helpers *)

_resolve_path(maybe_path, default) ==
    IF maybe_path = NO_PATH THEN default ELSE maybe_path

\* the list sorted ascending: the oldest files kept
PruneVictims_KeepsOldest(names, keep) ==
    LET sorted == SortedAsc(names)
    IN { sorted[i] : i \in (keep + 1)..Len(sorted) }

\* files[keep:] of the descending list; unlink raises for the names in locked
PruneVictims(names, keep) ==
    LET sorted == SortedDesc(names)
    IN { sorted[i] : i \in (keep + 1)..Len(sorted) }

_prune_backups(dir, keep, locked) ==
    IF keep <= 0 THEN dir
    ELSE Without(dir, PruneVictims(DOMAIN dir, keep) \ locked)

----------------------------------------------------------------------------
(* YAML read/write *)

Falsy(data) ==
    \/ data.t = "null"
    \/ data.t = "dict" /\ Len(data.keys) = 0
    \/ data.t = "list" /\ data.len = 0
    \/ data.t = "int" /\ data.int = 0
    \/ data.t = "str" /\ Len(data.str) = 0

\* open() of a missing file: the exists() test left out
_read_yaml_NoExistsTest(fs, path) ==
    IF path \notin DOMAIN fs THEN [raised |-> TRUE, data |-> EmptyDict]
    ELSE [raised |-> fs[path].t # "dict", data |-> fs[path]]

_read_yaml(fs, path) ==
    IF path \notin DOMAIN fs THEN [raised |-> FALSE, data |-> EmptyDict]
    ELSE LET data == IF Falsy(fs[path]) THEN EmptyDict ELSE fs[path]
         IN IF data.t # "dict"
            THEN [raised |-> TRUE, data |-> EmptyDict]
            ELSE [raised |-> FALSE, data |-> data]

_write_yaml(fs, path, data) == (path :> data) @@ fs

----------------------------------------------------------------------------
(* _normalize_entities_block *)

RECURSIVE Count(_, _)
Count(s, c) ==
    IF Len(s) = 0 THEN 0
    ELSE (IF s[1] = c THEN 1 ELSE 0) + Count(Tail(s), c)

\* the flat shape taking every key that has a "."
_normalize_entities_block_AnyDot(blob) ==
    IF Has(blob, K_ENTITIES) /\ Get(blob, K_ENTITIES).t = "dict"
    THEN Get(blob, K_ENTITIES)
    ELSE LET keys == SelectSeq(blob.keys,
                       LAMBDA k : blob.val[k].t = "dict" /\ Count(k, ".") >= 1)
         IN Dict(keys, [k \in Range(keys) |-> blob.val[k]])

_normalize_entities_block(blob) ==
    IF Has(blob, K_ENTITIES) /\ Get(blob, K_ENTITIES).t = "dict"
    THEN Get(blob, K_ENTITIES)
    ELSE LET keys == SelectSeq(blob.keys,
                       LAMBDA k : blob.val[k].t = "dict" /\ Count(k, ".") = 1)
         IN Dict(keys, [k \in Range(keys) |-> blob.val[k]])

----------------------------------------------------------------------------
(* _apply_overrides *)

Fields == {"name", "icon", "hidden_by", "disabled_by", "area_id"}

PropOf(field) ==
    CASE field = "name" -> "name"
      [] field = "icon" -> "icon"
      [] field = "hidden_by" -> "hidden"
      [] field = "disabled_by" -> "disabled"
      [] OTHER -> "area"

\* `x if x else None` for a string or None
OrNone(v) == IF v # None /\ v # "" THEN v ELSE None

async_get_area(area_id) == { a \in Areas : a.id = area_id }
async_get_area_by_name(name) == { a \in Areas : a.name = name }

ResolveArea(area_val) ==
    IF area_val = None \/ area_val = "" THEN None
    ELSE IF async_get_area(area_val) # {} THEN area_val
    ELSE IF async_get_area_by_name(area_val) # {}
         THEN (CHOOSE a \in async_get_area_by_name(area_val) : TRUE).id
         ELSE None

\* the value of updates[field] when the record has the field's key
FromProps(field, props) ==
    LET v == Get(props, PropOf(field))
    IN CASE field = "name" -> OrNone(v)
         [] field = "icon" -> OrNone(v)
         [] field = "hidden_by" -> (IF v = TRUE THEN USER ELSE None)
         [] field = "disabled_by" -> (IF v = TRUE THEN USER ELSE None)
         [] OTHER -> ResolveArea(v)

\* merge=False clearing the area as well
ResetValue_ClearsArea(field, entry) == None

\* the value of updates[field] under merge=False when the record lacks the key
ResetValue(field, entry) ==
    IF field = "area_id" THEN entry.area_id ELSE None

\* the reset of absent keys applied whatever merge is
Updates_ResetsUnderMerge(entry, props, merge) ==
    LET present == { f \in Fields : Has(props, PropOf(f)) }
    IN [f \in Fields |-> IF f \in present THEN FromProps(f, props)
                         ELSE ResetValue(f, entry)]

Updates(entry, props, merge) ==
    LET present == { f \in Fields : Has(props, PropOf(f)) }
        keys == IF merge THEN present ELSE Fields
    IN [f \in keys |-> IF f \in present THEN FromProps(f, props)
                       ELSE ResetValue(f, entry)]

async_update_entity(reg, entity_id, updates) ==
    [reg EXCEPT ![entity_id] =
        [f \in DOMAIN @ |-> IF f \in DOMAIN updates THEN updates[f] ELSE @[f]]]

RECURSIVE ApplyLoop(_, _, _, _, _, _, _)
RECURSIVE ApplyLoop_Transactional(_, _, _, _, _, _, _)
RECURSIVE ApplyLoop_StopsAtUnknown(_, _, _, _, _, _, _)

\* every unknown id checked before any update: a strict abort changes nothing
ApplyLoop_Transactional(reg, entities_map, i, merge, strict_entities, updated, skipped) ==
    IF i > Len(entities_map.keys)
    THEN [reg |-> reg, updated |-> updated, skipped |-> skipped, raised |-> FALSE]
    ELSE LET entity_id == entities_map.keys[i]
             props == entities_map.val[entity_id]
         IN IF strict_entities /\ \E k \in i..Len(entities_map.keys) :
                                    entities_map.keys[k] \notin DOMAIN reg
            THEN [reg |-> reg, updated |-> updated, skipped |-> skipped + 1,
                  raised |-> TRUE]
            ELSE IF entity_id \notin DOMAIN reg
            THEN ApplyLoop_Transactional(reg, entities_map, i + 1, merge,
                                         strict_entities, updated, skipped + 1)
            ELSE ApplyLoop_Transactional(
                   async_update_entity(reg, entity_id,
                                       Updates(reg[entity_id], props, merge)),
                   entities_map, i + 1, merge, strict_entities, updated + 1, skipped)

\* `break` for `continue`: the lenient loop ends at the first unknown id
ApplyLoop_StopsAtUnknown(reg, entities_map, i, merge, strict_entities, updated, skipped) ==
    IF i > Len(entities_map.keys)
    THEN [reg |-> reg, updated |-> updated, skipped |-> skipped, raised |-> FALSE]
    ELSE LET entity_id == entities_map.keys[i]
             props == entities_map.val[entity_id]
         IN IF entity_id \notin DOMAIN reg
            THEN [reg |-> reg, updated |-> updated, skipped |-> skipped + 1,
                  raised |-> strict_entities]
            ELSE ApplyLoop_StopsAtUnknown(
                   async_update_entity(reg, entity_id,
                                       Updates(reg[entity_id], props, merge)),
                   entities_map, i + 1, merge, strict_entities, updated + 1, skipped)

ApplyLoop(reg, entities_map, i, merge, strict_entities, updated, skipped) ==
    IF i > Len(entities_map.keys)
    THEN [reg |-> reg, updated |-> updated, skipped |-> skipped, raised |-> FALSE]
    ELSE LET entity_id == entities_map.keys[i]
             props == entities_map.val[entity_id]
         IN IF entity_id \notin DOMAIN reg
            THEN IF strict_entities
                 THEN [reg |-> reg, updated |-> updated, skipped |-> skipped + 1,
                       raised |-> TRUE]
                 ELSE ApplyLoop(reg, entities_map, i + 1, merge, strict_entities,
                                updated, skipped + 1)
            ELSE ApplyLoop(
                   async_update_entity(reg, entity_id,
                                       Updates(reg[entity_id], props, merge)),
                   entities_map, i + 1, merge, strict_entities, updated + 1, skipped)

_apply_overrides(reg, entities_map, merge, strict_entities) ==
    ApplyLoop(reg, entities_map, 1, merge, strict_entities, 0, 0)

----------------------------------------------------------------------------
(* entity_metadata services *)

D_METADATA == "entity_metadata"
D_OVERRIDES == "entity_overrides"

\* entries[0].options.get(key, default) if entries else default
EntryOption(domain, key, default) ==
    IF domain \in DOMAIN options /\ key \in DOMAIN options[domain]
    THEN options[domain][key]
    ELSE default

DEFAULT_BACKUP_RETENTION == 7
DEFAULT_MAX_BACKUPS == 5

\* _register_services_once has run: async_setup_entry of the integration
Registered(domain) == domain \in DOMAIN options

_handle_export_service(write_overrides, write_backup, include_all, include_domains, path, locked) ==
    LET out_path == _resolve_path(path, overrides_path)
        stamp == Stamp(now)
        keep == EntryOption(D_METADATA, "backup_retention", DEFAULT_BACKUP_RETENTION)
    IN \E blob \in { _serialize_registry(registry, include_domains, include_all,
                                         Stamp(now)) } :
       \E written \in { _write_yaml(backups, stamp, blob) } :
       \E pruned \in { _prune_backups(written, keep, locked) } :
         /\ Registered(D_METADATA)
         /\ locked \subseteq DOMAIN written
         /\ files' = IF write_overrides THEN _write_yaml(files, out_path, blob)
                     ELSE files
         /\ backups' = IF write_backup THEN pruned ELSE backups
         /\ last' = [op |-> "export", domain |-> D_METADATA, result |-> "ok",
                     write_overrides |-> write_overrides, write_backup |-> write_backup,
                     include_all |-> include_all, include_domains |-> include_domains,
                     path |-> out_path, keep |-> keep,
                     deleted |-> IF write_backup
                                 THEN (DOMAIN written) \ (DOMAIN pruned) ELSE {},
                     failed |-> IF write_backup /\ keep > 0
                                THEN PruneVictims(DOMAIN written, keep) \cap locked
                                ELSE {}]
         /\ UNCHANGED <<registry, ofile, obackups, options, now, inflight, started, listeners, loaded>>

_handle_import_service(path, merge, strict_entities) ==
    LET in_path == _resolve_path(path, overrides_path)
    IN \E rd \in { _read_yaml(files, in_path) } :
       \E res \in { _apply_overrides(registry, _normalize_entities_block(rd.data),
                                     merge, strict_entities) } :
         /\ Registered(D_METADATA)
         /\ registry' = IF rd.raised THEN registry ELSE res.reg
         /\ last' = [op |-> "import", domain |-> D_METADATA,
                     result |-> IF rd.raised \/ res.raised THEN "ValueError" ELSE "ok",
                     message |-> IF rd.raised THEN "must be a mapping at top level"
                                 ELSE IF res.raised THEN "entity not found"
                                 ELSE "import complete",
                     path |-> in_path, merge |-> merge,
                     strict_entities |-> strict_entities,
                     entities_map |-> _normalize_entities_block(rd.data),
                     updated |-> IF rd.raised \/ res.raised THEN -1 ELSE res.updated,
                     skipped |-> IF rd.raised \/ res.raised THEN -1 ELSE res.skipped]
         /\ UNCHANGED <<files, backups, ofile, obackups, options, now, inflight, started, listeners, loaded>>

----------------------------------------------------------------------------
(* entity_overrides export_overrides *)

OverrideKeys(entry) ==
    (IF /\ entry.name # None /\ entry.name # ""
        /\ entry.original_name # None /\ entry.original_name # ""
        /\ entry.name # entry.original_name
     THEN <<"friendly_name">> ELSE <<>>)
    \o (IF entry.hidden_by # None THEN <<"hidden">> ELSE <<>>)
    \o (IF entry.disabled_by # None THEN <<"enabled">> ELSE <<>>)

OverrideData(entry) ==
    LET keys == OverrideKeys(entry)
    IN Dict(keys, [k \in Range(keys) |->
                     CASE k = "friendly_name" -> entry.name
                       [] k = "hidden" -> TRUE
                       [] OTHER -> FALSE])

OverridesData(reg) ==
    LET keys == SelectSeq(RegOrder,
                   LAMBDA e : e \in DOMAIN reg /\ Len(OverrideKeys(reg[e])) > 0)
    IN Dict(keys, [e \in Range(keys) |-> OverrideData(reg[e])])

\* the names popped by `while len(backups) > max_backups: backups.pop(0)`
RotationVictims(names, max_backups) ==
    LET sorted == SortedAsc(names)
        pops == IF max_backups < 0 THEN Len(sorted) ELSE Len(sorted) - max_backups
    IN { sorted[i] : i \in 1..pops }

\* pop(0) from the emptied list: IndexError, outside the try
RotationRaises(names, max_backups) == Cardinality(names) > max_backups /\ max_backups < 0

export_overrides(locked) ==
    LET data == OverridesData(registry)
        doc == Dict(<<D_OVERRIDES>>, [k \in {D_OVERRIDES} |-> data])
        exists == ofile # <<>>
        max_backups == EntryOption(D_OVERRIDES, "max_backups", DEFAULT_MAX_BACKUPS)
        rotated == IF exists THEN _write_yaml(obackups, Stamp(now), ofile[1]) ELSE obackups
        victims == IF exists THEN RotationVictims(DOMAIN rotated, max_backups) ELSE {}
        raised == exists /\ RotationRaises(DOMAIN rotated, max_backups)
    IN /\ Registered(D_OVERRIDES)
       /\ locked \subseteq DOMAIN rotated
       /\ obackups' = Without(rotated, victims \ locked)
       /\ ofile' = IF ~raised /\ Len(data.keys) > 0 THEN <<doc>> ELSE <<>>
       /\ last' = [op |-> "export", domain |-> D_OVERRIDES,
                   result |-> IF raised THEN "IndexError" ELSE "ok",
                   existed |-> exists, keep |-> max_backups,
                   deleted |-> victims \ locked, failed |-> victims \cap locked]
       /\ UNCHANGED <<registry, files, backups, options, now, inflight, started, listeners, loaded>>

----------------------------------------------------------------------------
(* The clock *)

MaxTime == 11

Tick == now < MaxTime /\ now' = now + 1 /\ UNCHANGED <<registry, files, backups, ofile, obackups, options, last, inflight, started, listeners, loaded>>

----------------------------------------------------------------------------
(* Bounded inputs *)

ORIGINAL_NAME == "Orig"

Entry(name, icon, hidden_by, disabled_by, area_id) ==
    [name |-> name, original_name |-> ORIGINAL_NAME, icon |-> icon,
     hidden_by |-> hidden_by, disabled_by |-> disabled_by, area_id |-> area_id]

BlankEntry == Entry(None, None, None, None, None)
UserEntry == Entry("X", "I", USER, USER, "a1")
IntegrationEntry == Entry("", None, INTEGRATION, INTEGRATION, None)

Markers == {None, USER, INTEGRATION}

AllEntries ==
    { Entry(n, i, h, d, a) :
        n \in {None, "", "X"}, i \in {None, "I"}, h \in Markers, d \in Markers,
        a \in {None, "a1"} }

Reg(light, switch) == (E_LIGHT :> light) @@ (E_SWITCH :> switch)

Absent == "<absent>"

\* a property set of a document: each key absent or with the given value
MkProps(name, icon, hidden, disabled, area) ==
    LET keys == (IF name # Absent THEN <<"name">> ELSE <<>>)
                \o (IF icon # Absent THEN <<"icon">> ELSE <<>>)
                \o (IF hidden # Absent THEN <<"hidden">> ELSE <<>>)
                \o (IF disabled # Absent THEN <<"disabled">> ELSE <<>>)
                \o (IF area # Absent THEN <<"area">> ELSE <<>>)
    IN Dict(keys, [k \in Range(keys) |->
                     CASE k = "name" -> name
                       [] k = "icon" -> icon
                       [] k = "hidden" -> (hidden = "true")
                       [] k = "disabled" -> (disabled = "true")
                       [] OTHER -> area])

NoProps == MkProps(Absent, Absent, Absent, Absent, Absent)

\* every combination of present keys, and each key's other values
LightProps ==
    { MkProps(n, i, h, d, a) :
        n \in {Absent, "Y"}, i \in {Absent, "J"}, h \in {Absent, "true"},
        d \in {Absent, "true"}, a \in {Absent, "Kitchen"} }
    \cup { MkProps("", Absent, Absent, Absent, Absent),
           MkProps(None, "", Absent, Absent, Absent),
           MkProps(Absent, Absent, "false", Absent, Absent),
           MkProps(Absent, Absent, Absent, "false", "zz"),
           MkProps(Absent, Absent, Absent, Absent, "a1"),
           MkProps(Absent, Absent, Absent, Absent, ""),
           MkProps("", "", "false", "false", "zz") }

SwitchProps ==
    { MkProps("Y", Absent, Absent, Absent, Absent),
      MkProps(Absent, "", "false", "true", "a1") }

PropsFor(entity_id) ==
    IF entity_id = E_LIGHT THEN LightProps
    ELSE IF entity_id = E_SWITCH THEN SwitchProps
    ELSE {NoProps}

DocIds == {E_LIGHT, E_SWITCH, E_UNKNOWN}

\* the orders in which a document can list distinct entity ids
IdSeqs ==
    { ids \in UNION { [1..n -> DocIds] : n \in 0..Cardinality(DocIds) } :
        \A i, j \in 1..Len(ids) : i # j => ids[i] # ids[j] }

Document(entities, ts) ==
    Dict(<<K_VERSION, K_GENERATED_AT, K_ENTITIES>>,
         [k \in {K_VERSION, K_GENERATED_AT, K_ENTITIES} |->
            CASE k = K_VERSION -> YInt(1)
              [] k = K_GENERATED_AT -> YStr(ts)
              [] OTHER -> entities])

Documents ==
    { Document(Dict(ids, [e \in Range(ids) |->
                           CASE e = E_LIGHT -> pl
                             [] e = E_SWITCH -> ps
                             [] OTHER -> NoProps]), Stamp(7)) :
        ids \in IdSeqs, pl \in LightProps, ps \in SwitchProps }

NoCall == [op |-> "none", domain |-> "none", result |-> "ok"]

\* every entry set up, the started event fired, no call in flight
Settled ==
    /\ inflight = <<>>
    /\ started = TRUE
    /\ listeners = <<>>
    /\ loaded = DOMAIN options

----------------------------------------------------------------------------
(* Spec: export and import of entity_metadata over every registry entry *)

Init ==
    /\ registry \in { Reg(l, s) : l \in AllEntries,
                                 s \in {BlankEntry, UserEntry, IntegrationEntry} }
    /\ files = <<>>
    /\ backups = <<>>
    /\ ofile = <<>>
    /\ obackups = <<>>
    /\ options = (D_METADATA :> <<>>)
    /\ now = 8
    /\ last = NoCall
    /\ Settled

DomainInputs == { <<"l">>, <<"L">>, <<"s">> }

Export ==
    \E include_all \in BOOLEAN, include_domains \in SUBSET DomainInputs :
        _handle_export_service(TRUE, FALSE, include_all, include_domains, NO_PATH, {})

Import ==
    \E merge \in BOOLEAN :
        _handle_import_service(NO_PATH, merge, FALSE)

Next == Export \/ Import

Spec == Init /\ [][Next]_vars

----------------------------------------------------------------------------
(* Claims checked under Spec *)

HasOverride(entry) ==
    \/ entry.name \notin {None, ""}
    \/ entry.icon \notin {None, ""}
    \/ entry.hidden_by # None
    \/ entry.disabled_by # None

Exported == last.op = "export" /\ last.domain = D_METADATA /\ last.write_overrides

ExportedEntities == Get(files[last.path], K_ENTITIES)

\* C2: round trip. An import with merge=True of a file whose entities mapping is
\* the serialization of the current registry leaves every field of every entity
\* as it was, whatever the markers hidden_by and disabled_by hold.
C2_RoundTripKeepsFields ==
    [][ (/\ overrides_path \in DOMAIN files
         /\ \E include_all \in BOOLEAN, include_domains \in SUBSET DomainInputs :
              Get(files[overrides_path], K_ENTITIES)
                = Payload(registry, include_domains, include_all)
         /\ last'.op = "import" /\ last'.merge
         /\ _handle_import_service(NO_PATH, TRUE, FALSE))
        => registry' = registry ]_vars

----------------------------------------------------------------------------
(* SpecApply: imports of hand-written documents *)

InitApply ==
    /\ registry \in { Reg(l, s) : l \in {BlankEntry, UserEntry, IntegrationEntry},
                                 s \in {BlankEntry, UserEntry} }
    /\ files \in {<<>>} \cup { (overrides_path :> d) : d \in Documents }
    /\ backups = <<>>
    /\ ofile = <<>>
    /\ obackups = <<>>
    /\ options = (D_METADATA :> <<>>)
    /\ now = 8
    /\ last = NoCall
    /\ Settled

PathInputs == {NO_PATH, CUSTOM_PATH}

ImportAny ==
    \E path \in PathInputs, merge \in BOOLEAN, strict_entities \in BOOLEAN :
        _handle_import_service(path, merge, strict_entities)

NextApply == ImportAny

SpecApply == InitApply /\ [][NextApply]_vars

----------------------------------------------------------------------------
(* Claims checked under SpecApply *)

\* the entities mapping of the document at a path; empty when no file is there
Listed(path) ==
    LET p == IF path = NO_PATH THEN overrides_path ELSE path
    IN IF p \in DOMAIN files THEN Get(files[p], K_ENTITIES) ELSE EmptyDict

IndexOf(map, e) == CHOOSE i \in 1..Len(map.keys) : map.keys[i] = e

Unknown(map) == { i \in 1..Len(map.keys) : map.keys[i] \notin DOMAIN registry }

FirstUnknown(map) == CHOOSE i \in Unknown(map) : \A j \in Unknown(map) : i <= j

\* the loop reaches position i: no strict abort before it
Reached(map, i, strict_entities) ==
    ~strict_entities \/ \A j \in Unknown(map) : j > i

KeyOfField ==
    [name |-> "name", icon |-> "icon", hidden_by |-> "hidden",
     disabled_by |-> "disabled", area_id |-> "area"]

\* the entry the record of entity e makes of the entry before
UpdatedEntry(map, e, merge) ==
    async_update_entity(registry, e, Updates(registry[e], map.val[e], merge))[e]

Imported == last.op = "import" /\ last.domain = D_METADATA

\* this step is the import service called with these parameters
ImportStep(path, merge, strict_entities) ==
    /\ last'.op = "import"
    /\ last'.merge = merge
    /\ last'.strict_entities = strict_entities
    /\ last'.path = (IF path = NO_PATH THEN overrides_path ELSE path)
    /\ _handle_import_service(path, merge, strict_entities)

LastListed == IF last.path \in DOMAIN files
              THEN Get(files[last.path], K_ENTITIES) ELSE EmptyDict

\* C3: an import with merge=True keeps, for every listed entity, each of name,
\* icon, hidden_by, disabled_by and area_id whose key is absent from the record.
C3_MergeIsSparse ==
    [][ \A path \in PathInputs, strict_entities \in BOOLEAN :
          ImportStep(path, TRUE, strict_entities) =>
            \A e \in DOMAIN registry, f \in DOMAIN KeyOfField :
                (Has(Listed(path), e) /\ ~Has(Listed(path).val[e], KeyOfField[f]))
                    => registry'[e][f] = registry[e][f] ]_vars

\* a merge import of a record holding only a name has renamed the light, which
\* is still hidden and disabled
C3_Witness ==
    /\ Imported /\ last.merge /\ last.result = "ok"
    /\ Has(LastListed, E_LIGHT)
    /\ LastListed.val[E_LIGHT].keys = <<"name">>
    /\ registry[E_LIGHT].name = "Y"
    /\ registry[E_LIGHT].hidden_by # None
    /\ registry[E_LIGHT].disabled_by # None

\* C4: an import with merge=False sets, for every listed entity of the registry
\* that the loop reaches, each of name, icon, hidden_by and disabled_by whose key
\* is absent from the record to None, and leaves area_id as it was when the area
\* key is absent.
C4_ReplaceResets ==
    [][ \A path \in PathInputs, strict_entities \in BOOLEAN :
          ImportStep(path, FALSE, strict_entities) =>
            \A e \in DOMAIN registry :
                (Has(Listed(path), e)
                 /\ Reached(Listed(path), IndexOf(Listed(path), e), strict_entities))
                =>  /\ \A f \in {"name", "icon", "hidden_by", "disabled_by"} :
                          ~Has(Listed(path).val[e], KeyOfField[f])
                              => registry'[e][f] = None
                    /\ ~Has(Listed(path).val[e], "area")
                          => registry'[e].area_id = registry[e].area_id ]_vars

\* a replace import of a record holding only a name has cleared the light's
\* icon, hidden_by and disabled_by and kept its area
C4_Witness ==
    /\ Imported /\ ~last.merge /\ last.result = "ok"
    /\ Has(LastListed, E_LIGHT)
    /\ LastListed.val[E_LIGHT].keys = <<"name">>
    /\ registry[E_LIGHT] = Entry("Y", None, None, None, "a1")

\* C5: a strict import of a document naming an unknown id fails with "entity
\* not found"; the known entities listed before the first unknown id are updated
\* and the entities listed after it are as before.
C5_StrictAbortsWithoutRollback ==
    [][ \A path \in PathInputs, merge \in BOOLEAN :
          (ImportStep(path, merge, TRUE) /\ Unknown(Listed(path)) # {}) =>
            /\ last'.result = "ValueError"
            /\ last'.message = "entity not found"
            /\ \A e \in DOMAIN registry :
                 IF Has(Listed(path), e)
                    /\ IndexOf(Listed(path), e) < FirstUnknown(Listed(path))
                 THEN registry'[e] = UpdatedEntry(Listed(path), e, merge)
                 ELSE registry'[e] = registry[e] ]_vars

\* a strict import failed at the unknown id listed second: the light before it
\* carries its record, the switch after it, whose record has a name, has none
C5_Witness ==
    /\ Imported /\ last.strict_entities /\ last.result = "ValueError"
    /\ LastListed.keys = <<E_LIGHT, E_UNKNOWN, E_SWITCH>>
    /\ LastListed.val[E_LIGHT].keys = <<"name">>
    /\ registry[E_LIGHT].name = "Y"
    /\ LastListed.val[E_SWITCH].keys = <<"name">>
    /\ registry[E_SWITCH].name = None

\* C6: a lenient import does not fail; every listed entity of the registry is
\* updated, skipped counts the listed ids the registry lacks, and updated +
\* skipped is the number of entries.
C6_LenientSkipsAndContinues ==
    [][ \A path \in PathInputs, merge \in BOOLEAN :
          ImportStep(path, merge, FALSE) =>
            /\ last'.result = "ok"
            /\ \A e \in DOMAIN registry :
                 Has(Listed(path), e) => registry'[e] = UpdatedEntry(Listed(path), e, merge)
            /\ last'.skipped = Cardinality(Unknown(Listed(path)))
            /\ last'.updated + last'.skipped = Len(Listed(path).keys) ]_vars

\* a lenient import skipped the unknown id listed first and renamed the switch
\* listed after it
C6_Witness ==
    /\ Imported /\ ~last.strict_entities /\ last.result = "ok"
    /\ LastListed.keys = <<E_UNKNOWN, E_SWITCH>>
    /\ LastListed.val[E_SWITCH].keys = <<"name">>
    /\ registry[E_SWITCH].name = "Y"
    /\ last.skipped = 1 /\ last.updated = 1

\* C9: an import from a path where no file exists ends without error, with
\* updated = 0 and skipped = 0, and changes no entity.
C9_MissingFileIsNoOp ==
    [][ \A path \in PathInputs, merge \in BOOLEAN, strict_entities \in BOOLEAN :
          (/\ (IF path = NO_PATH THEN overrides_path ELSE path) \notin DOMAIN files
           /\ ImportStep(path, merge, strict_entities)) =>
            /\ last'.result = "ok"
            /\ last'.updated = 0 /\ last'.skipped = 0
            /\ registry' = registry ]_vars

\* a strict replace import from the custom path, where no file is, has ended
C9_Witness ==
    /\ Imported /\ last.path = CUSTOM_PATH /\ last.path \notin DOMAIN files
    /\ overrides_path \in DOMAIN files
    /\ last.strict_entities /\ ~last.merge
    /\ last.result = "ok" /\ last.updated = 0 /\ last.skipped = 0
    /\ registry[E_LIGHT] = UserEntry

----------------------------------------------------------------------------
(* SpecBackups: exports over time, of either integration, with backups *)

MaxKeep == 2

KeepInputs == (0 - 1)..MaxKeep

OldStamps == { Stamp(7) }

OldDocument(stamp) ==
    Document(Payload(Reg(IntegrationEntry, BlankEntry), {}, FALSE), stamp)

OldOverrides ==
    Dict(<<D_OVERRIDES>>,
         [k \in {D_OVERRIDES} |-> OverridesData(Reg(IntegrationEntry, BlankEntry))])

InitBackups ==
    /\ registry \in { Reg(BlankEntry, BlankEntry), Reg(UserEntry, BlankEntry) }
    /\ now = 8
    /\ last = NoCall
    /\ \/ /\ options \in { (D_METADATA :> o) :
                             o \in {<<>>} \cup { ("backup_retention" :> k) : k \in KeepInputs } }
          /\ files \in { <<>>, (overrides_path :> OldDocument(Stamp(7))) }
          /\ backups \in { [n \in S |-> OldDocument(n)] : S \in SUBSET OldStamps }
          /\ ofile = <<>>
          /\ obackups = <<>>
       \/ /\ options \in { (D_OVERRIDES :> o) :
                             o \in {<<>>} \cup { ("max_backups" :> k) : k \in KeepInputs } }
          /\ ofile \in { <<>>, <<OldOverrides>> }
          /\ obackups \in { [n \in S |-> OldOverrides] : S \in SUBSET OldStamps }
          /\ files = <<>>
          /\ backups = <<>>
    /\ Settled

\* unlink or os.remove raises for no file, or for one of them
LockedInputs(names) == { {} } \cup { {n} : n \in names }

ExportMetadata ==
    \E write_overrides \in BOOLEAN, write_backup \in BOOLEAN,
       locked \in LockedInputs(DOMAIN backups \cup {Stamp(now)}) :
        _handle_export_service(write_overrides, write_backup, FALSE, {}, NO_PATH, locked)

ExportOverrides ==
    \E locked \in LockedInputs(DOMAIN obackups \cup {Stamp(now)}) :
        export_overrides(locked)

NextBackups == ExportMetadata \/ ExportOverrides \/ Tick

SpecBackups == InitBackups /\ [][NextBackups]_vars

----------------------------------------------------------------------------
(* Claims checked under SpecBackups *)

\* this step is the entity_metadata export service called with these parameters
MetadataExportStep(write_overrides, write_backup, locked) ==
    /\ last'.op = "export" /\ last'.domain = D_METADATA
    /\ last'.write_overrides = write_overrides
    /\ last'.write_backup = write_backup
    /\ _handle_export_service(write_overrides, write_backup, FALSE, {}, NO_PATH, locked)

\* this step is the entity_overrides export
OverridesExportStep(locked) ==
    /\ last'.op = "export" /\ last'.domain = D_OVERRIDES
    /\ export_overrides(locked)

\* the retention counts the rotations read from the entry options
backup_retention == EntryOption(D_METADATA, "backup_retention", DEFAULT_BACKUP_RETENTION)
max_backups_option == EntryOption(D_OVERRIDES, "max_backups", DEFAULT_MAX_BACKUPS)

\* the backup directory as rotation finds it: with the file just written
MetadataBackupNames == DOMAIN backups \cup {Stamp(now)}
OverridesBackupNames == DOMAIN obackups \cup {Stamp(now)}

Min(a, b) == IF a < b THEN a ELSE b

\* the k lexicographically greatest names of S
Greatest(S, k) == { x \in S : Cardinality({ y \in S : LexLess(x, y) }) < k }

\* the names of S of the k most recent time stamps
MostRecent(S, k) ==
    { Stamp(t) : t \in { t \in 0..MaxTime :
                           /\ Stamp(t) \in S
                           /\ Cardinality({ u \in (t + 1)..MaxTime : Stamp(u) \in S }) < k } }

KeepsNewest(before, after, keep, locked) ==
    /\ last'.result = "ok"
    /\ Greatest(before, keep) \subseteq after
    /\ after \subseteq before
    /\ locked = {} =>
         /\ after = Greatest(before, keep)
         /\ after = MostRecent(before, keep)
         /\ Cardinality(after) = Min(keep, Cardinality(before))

\* C1: an export that overwrites or removes an existing override file finds a
\* backup with the file's content at that moment, and the content is in some
\* file when the export ends.
C1_PriorStateKept ==
    [][ /\ \A write_overrides \in BOOLEAN, write_backup \in BOOLEAN,
              locked \in LockedInputs(MetadataBackupNames) :
             (/\ overrides_path \in DOMAIN files
              /\ MetadataExportStep(write_overrides, write_backup, locked)
              /\ files'[overrides_path] # files[overrides_path])
             => /\ \E b \in DOMAIN backups : backups[b] = files[overrides_path]
                /\ \E b \in DOMAIN backups' : backups'[b] = files[overrides_path]
        /\ \A locked \in LockedInputs(OverridesBackupNames) :
             (ofile # <<>> /\ OverridesExportStep(locked))
             => \/ ofile' = ofile
                \/ \E b \in DOMAIN obackups' : obackups'[b] = ofile[1] ]_vars

\* C7: with a retention count above zero, rotation leaves the min(keep, n)
\* lexicographically greatest, most recent, of the n backup files when every
\* deletion succeeds; when a deletion fails the export still ends without error
\* and the newest files are still there.
C7_RotationKeepsNewest ==
    [][ /\ \A write_overrides \in BOOLEAN, locked \in LockedInputs(MetadataBackupNames) :
             (backup_retention > 0 /\ MetadataExportStep(write_overrides, TRUE, locked))
             => KeepsNewest(MetadataBackupNames, DOMAIN backups', backup_retention, locked)
        /\ \A locked \in LockedInputs(OverridesBackupNames) :
             (max_backups_option > 0 /\ ofile # <<>> /\ OverridesExportStep(locked))
             => KeepsNewest(OverridesBackupNames, DOMAIN obackups', max_backups_option, locked) ]_vars

\* an export with backup_retention 2 has deleted older backups and left those
\* of seconds 09 and 10
C7_Witness ==
    /\ last.op = "export" /\ last.domain = D_METADATA /\ last.write_backup
    /\ last.keep = 2
    /\ last.deleted # {}
    /\ DOMAIN backups = { Stamp(9), Stamp(10) }

\* C8: with a retention count of zero or less, rotation deletes no backup file
\* and raises nothing, in entity_metadata and in entity_overrides.
C8_NonPositiveKeepIsNoOp ==
    [][ /\ \A write_overrides \in BOOLEAN, locked \in LockedInputs(MetadataBackupNames) :
             (backup_retention <= 0 /\ MetadataExportStep(write_overrides, TRUE, locked))
             => /\ last'.result = "ok"
                /\ DOMAIN backups' = MetadataBackupNames
        /\ \A locked \in LockedInputs(OverridesBackupNames) :
             (max_backups_option <= 0 /\ ofile # <<>> /\ OverridesExportStep(locked))
             => /\ last'.result = "ok"
                /\ DOMAIN obackups' = OverridesBackupNames ]_vars

----------------------------------------------------------------------------
(* SpecShapes: imports of documents of every top-level shape *)

K_TWO_DOTS == <<"l", ".", "a", ".", "b">>
K_NO_DOT == <<"m">>

NameProps == MkProps("Y", Absent, Absent, Absent, Absent)

\* the keys a top-level mapping may hold, in file order
ShapeKeys == <<E_LIGHT, K_TWO_DOTS, K_NO_DOT, K_ENTITIES, E_UNKNOWN, E_SWITCH>>

IconProps == MkProps(Absent, "J", Absent, Absent, Absent)

\* the i-th value the model gives the top-level key k
ShapeValue(k, i) ==
    CASE k = E_LIGHT -> (IF i = 1 THEN NameProps ELSE YInt(1))
      [] k = K_TWO_DOTS -> NameProps
      [] k = K_NO_DOT -> (IF i = 1 THEN NameProps ELSE YStr(<<0, 7>>))
      [] k = K_ENTITIES ->
           (CASE i = 1 -> Dict(<<E_LIGHT>>, (E_LIGHT :> IconProps))
              [] i = 2 -> Dict(<<E_UNKNOWN, E_LIGHT>>,
                               (E_UNKNOWN :> NoProps) @@ (E_LIGHT :> IconProps))
              [] i = 3 -> EmptyDict
              [] i = 4 -> YNull
              [] OTHER -> YList(1))
      [] k = E_UNKNOWN -> NoProps
      [] OTHER -> (IF i = 1 THEN NameProps ELSE YList(1))

ShapeChoices(k) ==
    CASE k = K_ENTITIES -> 1..5
      [] k \in {K_TWO_DOTS, E_UNKNOWN} -> 1..1
      [] OTHER -> 1..2

\* yaml.safe_load of a file whose top level is a mapping
MappingDocuments ==
    { Dict(SelectSeq(ShapeKeys, LAMBDA k : k \in ks), [k \in ks |-> ShapeValue(k, c[k])]) :
        ks \in SUBSET Range(ShapeKeys),
        c \in { f \in [Range(ShapeKeys) -> 1..5] :
                  \A k \in Range(ShapeKeys) : f[k] \in ShapeChoices(k) } }

\* yaml.safe_load of a file whose top level is not a mapping
ScalarDocuments == { YNull, YList(0), YList(2), YInt(0), YInt(3), YStr(<<>>), YStr(<<0, 7>>) }

InitShapes ==
    /\ registry \in { Reg(BlankEntry, BlankEntry), Reg(UserEntry, BlankEntry) }
    /\ \E d \in MappingDocuments \cup ScalarDocuments :
       \E c \in {<<>>} \cup { (CUSTOM_PATH :> x) : x \in {YList(2), YInt(0)} } :
          files = (overrides_path :> d) @@ c
    /\ backups = <<>>
    /\ ofile = <<>>
    /\ obackups = <<>>
    /\ options = (D_METADATA :> <<>>)
    /\ now = 8
    /\ last = NoCall
    /\ Settled

NextShapes == ImportAny

SpecShapes == InitShapes /\ [][NextShapes]_vars

----------------------------------------------------------------------------
(* Claims checked under SpecShapes *)

\* C11: the failure of an import of a top-level document that is not a mapping
\* and the failure of a strict import naming an unknown entity are of different
\* kinds: two failed imports whose messages name different conditions differ in
\* the kind of the exception raised.
C11_KindsDistinguishable ==
    [][ (/\ last.result # "ok" /\ last'.result # "ok"
         /\ last.op = "import" /\ last'.op = "import"
         /\ last.message # last'.message)
        => last'.result # last.result ]_vars

\* the document the last import parsed: {} for a missing or empty file
ParsedDocument == _read_yaml(files, last.path).data

ImportedMapping == Imported /\ last.message # "must be a mapping at top level"

Dots(k) == Cardinality({ i \in 1..Len(k) : k[i] = "." })

\* map holds exactly the entries of blob whose value is a mapping and whose key
\* has exactly one "."
IsFlatShapeOf(map, blob) ==
    /\ \A k \in Range(blob.keys) :
         Has(map, k) <=> (blob.val[k].t = "dict" /\ Dots(k) = 1)
    /\ Range(map.keys) \subseteq Range(blob.keys)
    /\ Len(map.keys) = Cardinality(Range(map.keys))
    /\ \A k \in Range(map.keys) : map.val[k] = blob.val[k]

\* C13 as stated: when the parsed document has a top-level entities key, the
\* entity mapping of the import is the value under that key; otherwise it holds
\* exactly the top-level entries whose value is a mapping and whose key has
\* exactly one ".".
C13_ShapeAsStated ==
    ImportedMapping =>
        IF Has(ParsedDocument, K_ENTITIES)
        THEN last.entities_map = Get(ParsedDocument, K_ENTITIES)
        ELSE IsFlatShapeOf(last.entities_map, ParsedDocument)

\* C13 amended: when the parsed document has a top-level entities key whose
\* value is a mapping, the entity mapping of the import is that value; otherwise,
\* with no entities key or with one whose value is not a mapping, it holds
\* exactly the top-level entries whose value is a mapping and whose key has
\* exactly one ".".
C13_Shape ==
    ImportedMapping =>
        IF Has(ParsedDocument, K_ENTITIES) /\ Get(ParsedDocument, K_ENTITIES).t = "dict"
        THEN last.entities_map = Get(ParsedDocument, K_ENTITIES)
        ELSE IsFlatShapeOf(last.entities_map, ParsedDocument)

\* an import of a flat document with a null entities key has renamed the light
\* from its top-level record and left out the key with two dots
C13_Witness ==
    /\ ImportedMapping /\ last.result = "ok"
    /\ Has(ParsedDocument, K_ENTITIES) /\ Get(ParsedDocument, K_ENTITIES).t = "null"
    /\ Has(ParsedDocument, K_TWO_DOTS) /\ ~Has(last.entities_map, K_TWO_DOTS)
    /\ Has(ParsedDocument, E_LIGHT) /\ Has(last.entities_map, E_LIGHT)
    /\ registry[E_LIGHT].name = "Y"

----------------------------------------------------------------------------
(* SpecSteps: the service handlers step by step. A handler runs on the event *)
(* loop until an await of hass.async_add_executor_job; the job and the code  *)
(* up to the next await are one step, and other calls run in between.        *)

\* the service calls that can be in flight together
Calls == 1..2

Idle == [pc |-> "idle"]

Position(calls, c) == IF c \in DOMAIN calls THEN calls[c] ELSE Idle

Suspend(c, frame) == inflight' = (c :> frame) @@ inflight

Return(c) == inflight' = [d \in (DOMAIN inflight) \ {c} |-> inflight[d]]

At(c, op, pc) == c \in DOMAIN inflight /\ inflight[c].op = op /\ inflight[c].pc = pc

Outcome(c, op, result) == [op |-> op, domain |-> D_METADATA, result |-> result, call |-> c]

\* lines 353-367: the registry serialized, up to the await of the first write
ExportCall(c, write_overrides, write_backup, include_all, include_domains, path) ==
    /\ Registered(D_METADATA)
    /\ c \notin DOMAIN inflight
    /\ IF write_overrides \/ write_backup
       THEN /\ Suspend(c, [op |-> "export",
                           pc |-> IF write_overrides THEN "write_overrides" ELSE "write_backup",
                           blob |-> _serialize_registry(registry, include_domains,
                                                        include_all, Stamp(now)),
                           out_path |-> _resolve_path(path, overrides_path),
                           write_backup |-> write_backup])
            /\ UNCHANGED last
       ELSE /\ UNCHANGED inflight
            /\ last' = Outcome(c, "export", "ok")
    /\ UNCHANGED <<registry, files, backups, ofile, obackups, options, now, started, listeners, loaded>>

\* line 367: the executor job of _write_yaml on the override file
ExportWriteOverrides(c) ==
    /\ At(c, "export", "write_overrides")
    /\ files' = _write_yaml(files, inflight[c].out_path, inflight[c].blob)
    /\ IF inflight[c].write_backup
       THEN /\ inflight' = [inflight EXCEPT ![c].pc = "write_backup"]
            /\ UNCHANGED last
       ELSE /\ Return(c)
            /\ last' = Outcome(c, "export", "ok")
    /\ UNCHANGED <<registry, backups, ofile, obackups, options, now, started, listeners, loaded>>

\* lines 372-380: the executor job of _write_yaml on the backup file; the
\* handler returns here when _prune_backups returns at keep <= 0
ExportWriteBackup(c) ==
    LET keep == EntryOption(D_METADATA, "backup_retention", DEFAULT_BACKUP_RETENTION)
    IN /\ At(c, "export", "write_backup")
       /\ backups' = _write_yaml(backups, Stamp(now), inflight[c].blob)
       /\ IF keep > 0
          THEN /\ inflight' = [inflight EXCEPT ![c].pc = "prune"]
               /\ UNCHANGED last
          ELSE /\ Return(c)
               /\ last' = Outcome(c, "export", "ok")
       /\ UNCHANGED <<registry, files, ofile, obackups, options, now, started, listeners, loaded>>

\* lines 158-166: the executor job of _prune_backups
ExportPrune(c, locked) ==
    LET keep == EntryOption(D_METADATA, "backup_retention", DEFAULT_BACKUP_RETENTION)
    IN /\ At(c, "export", "prune")
       /\ locked \subseteq DOMAIN backups
       /\ backups' = _prune_backups(backups, keep, locked)
       /\ Return(c)
       /\ last' = Outcome(c, "export", "ok")
       /\ UNCHANGED <<registry, files, ofile, obackups, options, now, started, listeners, loaded>>

\* lines 383-390: up to the await of _read_yaml
ImportCall(c, path, merge, strict_entities) ==
    /\ Registered(D_METADATA)
    /\ c \notin DOMAIN inflight
    /\ Suspend(c, [op |-> "import", pc |-> "read",
                   in_path |-> _resolve_path(path, overrides_path),
                   merge |-> merge, strict_entities |-> strict_entities])
    /\ UNCHANGED <<registry, files, backups, ofile, obackups, options, now, started, listeners, loaded, last>>

\* lines 173-180: the executor job of _read_yaml
ImportRead(c) ==
    /\ At(c, "import", "read")
    /\ \E rd \in { _read_yaml(files, inflight[c].in_path) } :
         IF rd.raised
         THEN /\ Return(c)
              /\ last' = Outcome(c, "import", "ValueError")
         ELSE /\ inflight' = [inflight EXCEPT ![c] =
                                [op |-> "import", pc |-> "apply", blob |-> rd.data,
                                 merge |-> @.merge, strict_entities |-> @.strict_entities]]
              /\ UNCHANGED last
    /\ UNCHANGED <<registry, files, backups, ofile, obackups, options, now, started, listeners, loaded>>

\* lines 391-403: _normalize_entities_block and _apply_overrides, which awaits nothing
ImportApply(c) ==
    /\ At(c, "import", "apply")
    /\ \E res \in { _apply_overrides(registry, _normalize_entities_block(inflight[c].blob),
                                     inflight[c].merge, inflight[c].strict_entities) } :
         /\ registry' = res.reg
         /\ last' = Outcome(c, "import", IF res.raised THEN "ValueError" ELSE "ok")
    /\ Return(c)
    /\ UNCHANGED <<files, backups, ofile, obackups, options, now, started, listeners, loaded>>

InitSteps ==
    /\ registry \in { Reg(UserEntry, BlankEntry), Reg(BlankEntry, UserEntry) }
    /\ files \in { <<>>, (overrides_path :> OldDocument(Stamp(7))) }
    /\ backups \in { <<>>, (Stamp(7) :> OldDocument(Stamp(7))) }
    /\ ofile = <<>>
    /\ obackups = <<>>
    /\ options \in { (D_METADATA :> o) : o \in { <<>>, ("backup_retention" :> 0),
                                                 ("backup_retention" :> 1) } }
    /\ now = 8
    /\ last = NoCall
    /\ Settled

ExportBegins ==
    \E c \in Calls, write_overrides \in BOOLEAN, write_backup \in BOOLEAN :
        ExportCall(c, write_overrides, write_backup, FALSE, {}, NO_PATH)

ExportWrites == \E c \in Calls : ExportWriteOverrides(c)

ExportBacksUp == \E c \in Calls : ExportWriteBackup(c)

ExportPrunes == \E c \in Calls, locked \in LockedInputs(DOMAIN backups) : ExportPrune(c, locked)

ImportBegins ==
    \E c \in Calls, merge \in BOOLEAN, strict_entities \in BOOLEAN :
        ImportCall(c, NO_PATH, merge, strict_entities)

ImportReads == \E c \in Calls : ImportRead(c)

ImportApplies == \E c \in Calls : ImportApply(c)

NextSteps ==
    \/ ExportBegins \/ ExportWrites \/ ExportBacksUp \/ ExportPrunes
    \/ ImportBegins \/ ImportReads \/ ImportApplies

SpecSteps == InitSteps /\ [][NextSteps]_vars

----------------------------------------------------------------------------
(* Claims checked under SpecSteps *)

\* C12: a service call runs to completion without suspending between its
\* steps: whenever a call takes a step (it starts, its file is read or written,
\* its backups are rotated, its updates are applied, it returns), no other call
\* is between two of its own steps.
C12_NoInterleaving ==
    [][ \A c \in Calls :
          Position(inflight, c) # Position(inflight', c)
            => \A d \in Calls \ {c} : Position(inflight, d) = Idle ]_vars

----------------------------------------------------------------------------
(* entity_overrides apply_overrides *)

\* lines 57-63: updates of one record
OverrideUpdates(props) ==
    LET fields == (IF Has(props, "friendly_name") THEN {"name"} ELSE {})
                  \cup (IF Has(props, "hidden") THEN {"hidden_by"} ELSE {})
                  \cup (IF Has(props, "enabled") THEN {"disabled_by"} ELSE {})
    IN [f \in fields |->
          CASE f = "name" -> Get(props, "friendly_name")
            [] f = "hidden_by" -> (IF Get(props, "hidden") = TRUE THEN USER ELSE None)
            [] OTHER -> (IF Get(props, "enabled") = TRUE THEN None ELSE USER)]

RECURSIVE OverridesLoop(_, _, _)
OverridesLoop(reg, map, i) ==
    IF i > Len(map.keys) THEN reg
    ELSE LET entity_id == map.keys[i]
         IN IF entity_id \notin DOMAIN reg
            THEN OverridesLoop(reg, map, i + 1)
            ELSE OverridesLoop(
                   async_update_entity(reg, entity_id, OverrideUpdates(map.val[entity_id])),
                   map, i + 1)

\* lines 32-70; file is <<>> when overrides.yaml does not exist. The exception
\* of .get or .items on a value that is not a mapping is caught at line 69
apply_overrides(reg, file, ignore_toggle, enable_on_boot) ==
    IF ~ignore_toggle /\ ~enable_on_boot THEN reg
    ELSE IF file = <<>> THEN reg
    ELSE IF Falsy(file[1]) THEN reg
    ELSE IF file[1].t # "dict" THEN reg
    ELSE IF ~Has(file[1], D_OVERRIDES) THEN reg
    ELSE IF Get(file[1], D_OVERRIDES).t # "dict" THEN reg
    ELSE OverridesLoop(reg, Get(file[1], D_OVERRIDES), 1)

\* lines 116-118; ignore_toggle=True, so the closure's enable_on_boot is not read
handle_apply ==
    /\ D_OVERRIDES \in loaded
    /\ registry' = apply_overrides(registry, ofile, TRUE, TRUE)
    /\ last' = [op |-> "apply", domain |-> D_OVERRIDES, result |-> "ok"]
    /\ UNCHANGED <<files, backups, ofile, obackups, options, now, inflight, started, listeners, loaded>>

----------------------------------------------------------------------------
(* Set-up of the config entries, their options flows, and the started event *)

\* the listen_once callbacks one run of async_setup_entry registers, with the
\* values their closures hold
StartedListeners(domain) ==
    IF domain = D_METADATA
    THEN IF EntryOption(D_METADATA, "auto_import_on_startup", FALSE) = TRUE
         THEN << [domain |-> D_METADATA] >> ELSE << >>
    ELSE << [domain |-> D_OVERRIDES,
             enable_on_boot |-> EntryOption(D_OVERRIDES, "enable_on_boot", TRUE)] >>

MaxListeners == 2

async_setup_entry(domain) ==
    /\ domain \in DOMAIN options
    /\ domain \notin loaded
    /\ loaded' = loaded \cup {domain}
    /\ listeners' = listeners \o StartedListeners(domain)
    /\ UNCHANGED <<registry, files, backups, ofile, obackups, options, now, inflight, started, last>>

\* entity_metadata OptionsFlowHandler.async_step_init with export_now false; a
\* change of the options runs _reload_on_options_change: async_unload_entry,
\* which leaves the bus listeners, then async_setup_entry
MetadataOptionsFlow(auto_import_on_startup) ==
    LET new_options ==
          [auto_import_on_startup |-> auto_import_on_startup,
           backup_retention |-> EntryOption(D_METADATA, "backup_retention",
                                            DEFAULT_BACKUP_RETENTION),
           export_all_entities |-> EntryOption(D_METADATA, "export_all_entities", FALSE),
           export_domains |-> EntryOption(D_METADATA, "export_domains", <<>>)]
    IN /\ D_METADATA \in loaded
       /\ Len(listeners) < MaxListeners
       /\ options' = [options EXCEPT ![D_METADATA] = new_options]
       /\ listeners' = IF new_options = options[D_METADATA] THEN listeners
                       ELSE listeners \o (IF auto_import_on_startup
                                          THEN << [domain |-> D_METADATA] >> ELSE << >>)
       /\ UNCHANGED <<registry, files, backups, ofile, obackups, now, inflight, started, loaded, last>>

\* entity_overrides EntityOverridesOptionsFlowHandler.async_step_init with
\* export_now false; the entry has no update listener, so nothing is set up again
OverridesOptionsFlow(max_backups, enable_on_boot) ==
    /\ D_OVERRIDES \in loaded
    /\ options' = [options EXCEPT ![D_OVERRIDES] =
                     [max_backups |-> max_backups, enable_on_boot |-> enable_on_boot,
                      export_now |-> FALSE]]
    /\ UNCHANGED <<registry, files, backups, ofile, obackups, now, inflight, started, listeners, loaded, last>>

\* the registry after _handle_import_service
ImportEffect(reg, fs, path, merge, strict_entities) ==
    LET rd == _read_yaml(fs, _resolve_path(path, overrides_path))
    IN IF rd.raised THEN reg
       ELSE _apply_overrides(reg, _normalize_entities_block(rd.data), merge,
                             strict_entities).reg

\* one callback of the started event: _on_started calls import_overrides with
\* {"merge": True}; entity_overrides runs apply_overrides()
Fire(reg, listener) ==
    IF listener.domain = D_METADATA
    THEN ImportEffect(reg, files, NO_PATH, TRUE, FALSE)
    ELSE apply_overrides(reg, ofile, FALSE, listener.enable_on_boot)

RECURSIVE FireAll(_, _)
FireAll(reg, ls) ==
    IF Len(ls) = 0 THEN reg ELSE FireAll(Fire(reg, Head(ls)), Tail(ls))

\* EVENT_HOMEASSISTANT_STARTED: fired once, every listen_once callback run
Started ==
    /\ ~started
    /\ started' = TRUE
    /\ listeners' = << >>
    /\ registry' = FireAll(registry, listeners)
    /\ last' = [op |-> "started", domain |-> "homeassistant", result |-> "ok",
                fired |-> Len(listeners)]
    /\ UNCHANGED <<files, backups, ofile, obackups, options, now, inflight, loaded>>

----------------------------------------------------------------------------
(* SpecStartup: one integration installed, from before its entry is set up *)

OverrideProps ==
    { Dict(<<"friendly_name">>, ("friendly_name" :> "Y")),
      Dict(<<"hidden", "enabled">>, ("hidden" :> TRUE) @@ ("enabled" :> FALSE)),
      Dict(<<"friendly_name", "hidden", "enabled">>,
           ("friendly_name" :> "Y") @@ ("hidden" :> FALSE) @@ ("enabled" :> TRUE)),
      Dict(<<>>, <<>>) }

\* entity_overrides/overrides.yaml as written by hand or by export_overrides
OverridesDocuments ==
    { Dict(<<D_OVERRIDES>>,
           (D_OVERRIDES :> Dict(ids, [e \in Range(ids) |->
                                        IF e = E_LIGHT THEN props ELSE Dict(<<>>, <<>>)]))) :
        ids \in { <<E_LIGHT>>, <<E_UNKNOWN, E_LIGHT>> }, props \in OverrideProps }

StartupDocuments ==
    { Document(Dict(ids, [e \in Range(ids) |-> IF e = E_LIGHT THEN props ELSE NoProps]),
               Stamp(7)) :
        ids \in { <<E_LIGHT>>, <<E_UNKNOWN, E_LIGHT>> },
        props \in { NameProps, IconProps, MkProps(Absent, Absent, "true", "false", Absent) } }

InitStartup ==
    /\ registry \in { Reg(BlankEntry, BlankEntry), Reg(UserEntry, BlankEntry),
                      Reg(IntegrationEntry, UserEntry) }
    /\ backups = <<>>
    /\ obackups = <<>>
    /\ now = 8
    /\ last = NoCall
    /\ inflight = <<>>
    /\ started = FALSE
    /\ listeners = <<>>
    /\ loaded = {}
    /\ \/ /\ options \in { (D_METADATA :> o) :
                             o \in {<<>>} \cup { ("auto_import_on_startup" :> b) : b \in BOOLEAN } }
          /\ files \in {<<>>} \cup { (overrides_path :> d) : d \in StartupDocuments }
          /\ ofile = <<>>
       \/ /\ options \in { (D_OVERRIDES :> o) :
                             o \in {<<>>} \cup { ("enable_on_boot" :> b) : b \in BOOLEAN } }
          /\ ofile \in {<<>>} \cup { <<d>> : d \in OverridesDocuments }
          /\ files = <<>>

SetupEntry == \E domain \in {D_METADATA, D_OVERRIDES} : async_setup_entry(domain)

OptionsFlow ==
    \/ \E auto_import_on_startup \in BOOLEAN : MetadataOptionsFlow(auto_import_on_startup)
    \/ \E enable_on_boot \in BOOLEAN : OverridesOptionsFlow(DEFAULT_MAX_BACKUPS, enable_on_boot)

ImportService ==
    /\ D_METADATA \in loaded
    /\ \E merge \in BOOLEAN, strict_entities \in BOOLEAN :
         _handle_import_service(NO_PATH, merge, strict_entities)

ApplyService == handle_apply

NextStartup == SetupEntry \/ OptionsFlow \/ Started \/ ImportService \/ ApplyService

SpecStartup == InitStartup /\ [][NextStartup]_vars

----------------------------------------------------------------------------
(* Claims checked under SpecStartup *)

\* the option that gates the integration's application at the started event
StartupOption(domain) ==
    IF domain = D_METADATA
    THEN EntryOption(D_METADATA, "auto_import_on_startup", FALSE)
    ELSE EntryOption(D_OVERRIDES, "enable_on_boot", TRUE)

StartedStep == ~started /\ started'

\* the records of entity_overrides/overrides.yaml
OverridesListed ==
    IF ofile # <<>> /\ Has(ofile[1], D_OVERRIDES) THEN Get(ofile[1], D_OVERRIDES) ELSE EmptyDict

\* the entry that the record of entity e in overrides.yaml asks for
OverriddenEntry(e) ==
    LET props == OverridesListed.val[e]
    IN [f \in DOMAIN registry[e] |->
          CASE f = "name" /\ Has(props, "friendly_name") -> props.val["friendly_name"]
            [] f = "hidden_by" /\ Has(props, "hidden") ->
                 (IF props.val["hidden"] THEN USER ELSE None)
            [] f = "disabled_by" /\ Has(props, "enabled") ->
                 (IF props.val["enabled"] THEN None ELSE USER)
            [] OTHER -> registry[e][f]]

\* the started event changes the registry only with the option enabled, and in
\* entity_metadata only as an import with merge=true does
GatedByOption ==
    StartedStep =>
        /\ \A domain \in DOMAIN options :
             StartupOption(domain) = FALSE => registry' = registry
        /\ D_METADATA \in DOMAIN options =>
             \A e \in DOMAIN registry :
                \/ registry'[e] = registry[e]
                \/ Has(Listed(NO_PATH), e)
                   /\ registry'[e] = UpdatedEntry(Listed(NO_PATH), e, TRUE)

\* a service call applies the file whatever the option is
ServiceApplies ==
    /\ \A merge \in BOOLEAN :
         ImportStep(NO_PATH, merge, FALSE) =>
            \A e \in DOMAIN registry :
               Has(Listed(NO_PATH), e)
                  => registry'[e] = UpdatedEntry(Listed(NO_PATH), e, merge)
    /\ (last'.op = "apply" /\ handle_apply) =>
            \A e \in DOMAIN registry :
               Has(OverridesListed, e) => registry'[e] = OverriddenEntry(e)

\* C14: when the started event fires, the stored overrides are applied only if
\* the entry's option is enabled (auto_import_on_startup, as an import with
\* merge=true; enable_on_boot): with the option disabled the event changes no
\* registry entity, while import_overrides and apply_overrides called as
\* services apply the file whatever the option is.
C14_StartupGated == [][ GatedByOption /\ ServiceApplies ]_vars

====
